---- MODULE Spec2Model ----
(***************************************************************************)
(* Model of buildWhatsApp-Portable.py: the provisioning-and-build pipeline *)
(* (main: ensure_node, scaffold, build) as a state machine over the        *)
(* working directory, the process environment and the external tools, and  *)
(* the two policies of the generated Electron entry script (permission     *)
(* handler, navigation handler).                                           *)
(***************************************************************************)
EXTENDS Integers, Sequences, FiniteSets, TLC

\* Number of times the script is run against the same working directory.
MaxRuns == 2

-----------------------------------------------------------------------------
(* Program constants                                                       *)

APP_DIR == "WhatsApp-Electron"
APP_NAME == "WhatsAppPortabler"
OutName == APP_NAME \o "-win32-x64"
PKG_JSON ==
    "{\"name\": \"whatsapp-electron\", \"version\": \"4.20.0\", \"private\": true, "
    \o "\"main\": \"main.js\", \"scripts\": { \"start\": \"electron .\" }, "
    \o "\"devDependencies\": { \"electron\": \"^31.0.0\" }}"
PRELOAD_JS == "// Minimal preload; no Node exposure."
LOAD_URL == "https://web.whatsapp.com"
NAV_PREFIX == "https://web.whatsapp.com/"
ALLOW_MEDIA_DECL == "const allowMedia = "

\* A path that does not exist (Path.exists() is False).
NoFile == "<ENOENT>"
Exists(content) == content # NoFile
StSize(content) == Len(content)

-----------------------------------------------------------------------------
(* Python / JavaScript conversions used by the main.js template            *)

\* str(allow_media): Python renders a bool capitalised.
PyStr(b) == IF b THEN "True" ELSE "False"

\* str.lower() on the two renderings of a bool.
PyLower(s) == CASE s = "True" -> "true"
                [] s = "False" -> "false"
                [] OTHER -> s

\* The templated line of main.js: const allowMedia = {str(allow_media).lower()};
MainJs(allow_media) == ALLOW_MEDIA_DECL \o PyLower(PyStr(allow_media)) \o ";"

\* The initialiser of allowMedia as the JavaScript engine reads it back from
\* the generated file: the text between the declaration and the semicolon.
JsAllowMediaLiteral(main_js) ==
    SubSeq(main_js, Len(ALLOW_MEDIA_DECL) + 1, Len(main_js) - 1)

\* Evaluation of that initialiser: only the literals true and false are
\* booleans; any other identifier (True, False) is a ReferenceError.
JsIsBoolLiteral(lit) == lit \in {"true", "false"}
JsEvalBool(lit) == lit = "true"

-----------------------------------------------------------------------------
(* Inputs: the icon argument (sys.argv[1]) and the files it may name       *)

SelfIcon == APP_DIR \o "/icon.ico"
NoArg == "<no-argv>"
IconArgs == {NoArg, "good.ico", "other.ico", "empty.ico", "missing.ico", SelfIcon}

ExtFile(p) == CASE p = "good.ico" -> "ICON-A"
                [] p = "other.ico" -> "ICON-B"
                [] p = "empty.ico" -> ""
                [] OTHER -> NoFile

\* The toolchain found on the PATH the process starts with.
SysPaths ==
    { [node |-> TRUE,  npm |-> TRUE,  npx |-> TRUE,  answers |-> TRUE],
      [node |-> TRUE,  npm |-> TRUE,  npx |-> FALSE, answers |-> TRUE],
      [node |-> TRUE,  npm |-> TRUE,  npx |-> TRUE,  answers |-> FALSE],
      [node |-> TRUE,  npm |-> FALSE, npx |-> FALSE, answers |-> TRUE],
      [node |-> FALSE, npm |-> FALSE, npx |-> FALSE, answers |-> FALSE] }

-----------------------------------------------------------------------------
VARIABLES
    sysPath,       \* toolchain on the inherited PATH (environment)
    msiNode,       \* %ProgramFiles%\nodejs: "absent", "good" or "broken"
    nodePortable,  \* <cwd>/node-portable: "absent", "good" or "broken"
    appDir,        \* APP_DIR exists
    pkgJson,       \* content of APP_DIR/package.json
    mainJs,        \* content of APP_DIR/main.js
    preloadJs,     \* content of APP_DIR/preload.js
    iconIco,       \* content of APP_DIR/icon.ico
    nodeModules,   \* APP_DIR/node_modules exists
    dist,          \* APP_DIR/dist: [exists, entries]
    run,           \* ordinal of the current invocation of the script
    pc,            \* position of the current invocation
    status,        \* "running", "done" (exit 0), "fatal" (sys.exit(msg)), "crash"
    exitMsg,       \* message of sys.exit, or the uncaught exception
    allow_media,   \* answer to the first prompt
    icon_arg,      \* sys.argv[1], or NoArg
    pathEnv,       \* directories prepended to os.environ["PATH"] by this process
    trace,         \* external effects and console lines of this invocation
    fs0,           \* the working directory as this invocation found it
    completed,     \* invocations that ran to completion, by ordinal
    app            \* the packaged application: its entry script and last event

fsVars == <<appDir, pkgJson, mainJs, preloadJs, iconIco, nodeModules, dist>>
envVars == <<sysPath, msiNode>>
cfgVars == <<allow_media, icon_arg>>
pipeVars == <<sysPath, msiNode, nodePortable, appDir, pkgJson, mainJs,
              preloadJs, iconIco, nodeModules, dist, run, pc, status, exitMsg,
              allow_media, icon_arg, pathEnv, trace, fs0, completed>>
vars == <<pipeVars, app>>

\* What the working directory holds, as one value.
WorkDir == [appDir |-> appDir, pkgJson |-> pkgJson, mainJs |-> mainJs,
            preloadJs |-> preloadJs, iconIco |-> iconIco,
            nodeModules |-> nodeModules, dist |-> dist,
            nodePortable |-> nodePortable]

Ev(e, rc) == [ev |-> e, rc |-> rc]
Say(msg) == [ev |-> msg, rc |-> 0]

\* The line prompt_yes_no reads from stdin.
Stdin(answer) == Say(IF answer THEN "stdin: y" ELSE "stdin: n")
InstallPrompt == "prompt: Download and install latest LTS Node.js?"

NoDist == [exists |-> FALSE, entries |-> {}]
Artifact(name, by, media, icon) ==
    [name |-> name, builtBy |-> by, media |-> media, icon |-> icon]

-----------------------------------------------------------------------------
(* Utilities                                                               *)

ProgramFilesNode == "ProgramFiles/nodejs"
PortableDir == "node-portable"
SystemPath == "<inherited PATH>"
None == "<None>"

SearchPath == pathEnv \o <<SystemPath>>

DirHas(dir, tool) ==
    CASE dir = SystemPath -> sysPath[tool]
      [] dir = ProgramFilesNode -> msiNode # "absent"
      [] dir = PortableDir -> nodePortable # "absent"
      [] OTHER -> FALSE

\* which_any: the first directory of PATH that holds the tool, or None.
which_any(tool) ==
    LET hits == {i \in 1..Len(SearchPath) : DirHas(SearchPath[i], tool)}
    IN IF hits = {} THEN None
       ELSE SearchPath[CHOOSE i \in hits : \A j \in hits : i <= j]

\* Exit status of "<tool> --version" for the binary found in dir.
VersionRc(dir) ==
    LET good == CASE dir = SystemPath -> sysPath.answers
                  [] dir = ProgramFilesNode -> msiNode = "good"
                  [] dir = PortableDir -> nodePortable = "good"
                  [] OTHER -> FALSE
    IN IF good THEN 0 ELSE 1

\* run(cmd_list, check=True): subprocess.run raises CalledProcessError on a
\* non-zero exit status.
RunRaises_NoCheck(rc) == FALSE
RunRaises(rc) == rc # 0

\* check_output raises CalledProcessError on a non-zero exit status.
CheckOutputRaises(rc) == rc # 0

Exit(msg) == /\ status' = "fatal"
             /\ exitMsg' = msg

Raise(exc) == /\ status' = "crash"
              /\ exitMsg' = exc

Continue(next) == /\ pc' = next
                  /\ UNCHANGED <<status, exitMsg>>

ExitCode == IF status = "done" THEN 0 ELSE 1

-----------------------------------------------------------------------------
\* The packaged application has not been started.
NotLaunched == [phase |-> "not launched"]

TypeOK ==
    /\ sysPath \in SysPaths
    /\ msiNode \in {"absent", "good", "broken"}
    /\ nodePortable \in {"absent", "good", "broken"}
    /\ appDir \in BOOLEAN
    /\ nodeModules \in BOOLEAN
    /\ run \in 1..MaxRuns
    /\ status \in {"running", "done", "fatal", "crash"}
    /\ allow_media \in BOOLEAN
    /\ icon_arg \in IconArgs

\* The working directory before the first run: empty, or what an earlier
\* build left behind, or a scaffold holding a zero-length icon.
InitWorkDirs ==
    { [appDir |-> FALSE, pkgJson |-> NoFile, mainJs |-> NoFile,
       preloadJs |-> NoFile, iconIco |-> NoFile, nodeModules |-> FALSE,
       dist |-> NoDist],
      [appDir |-> TRUE, pkgJson |-> PKG_JSON, mainJs |-> MainJs(TRUE),
       preloadJs |-> PRELOAD_JS, iconIco |-> "ICON-A", nodeModules |-> TRUE,
       dist |-> [exists |-> TRUE,
                 entries |-> {Artifact(OutName, 0, "true", "ICON-A")}]],
      [appDir |-> TRUE, pkgJson |-> PKG_JSON, mainJs |-> MainJs(FALSE),
       preloadJs |-> PRELOAD_JS, iconIco |-> "", nodeModules |-> FALSE,
       dist |-> [exists |-> TRUE, entries |-> {}]] }

Init ==
    /\ sysPath \in SysPaths
    /\ msiNode = "absent"
    /\ nodePortable = "absent"
    /\ \E w \in InitWorkDirs :
          /\ appDir = w.appDir
          /\ pkgJson = w.pkgJson
          /\ mainJs = w.mainJs
          /\ preloadJs = w.preloadJs
          /\ iconIco = w.iconIco
          /\ nodeModules = w.nodeModules
          /\ dist = w.dist
          /\ fs0 = w @@ [nodePortable |-> "absent"]
    /\ run = 1
    /\ pc = "main"
    /\ status = "running"
    /\ exitMsg = ""
    /\ allow_media = TRUE
    /\ icon_arg = NoArg
    /\ pathEnv = <<>>
    /\ trace = <<>>
    /\ completed = {}
    /\ app = NotLaunched

\* main, up to the call of ensure_node: the media prompt; sys.argv is read.
Main ==
    /\ pc = "main" /\ status = "running"
    /\ \E am \in BOOLEAN, ia \in IconArgs :
          /\ allow_media' = am
          /\ icon_arg' = ia
          /\ trace' = trace \o <<Say("prompt: Allow mic/camera inside the app?"),
                                 Stdin(am)>>
    /\ Continue("ensure_node")
    /\ UNCHANGED <<envVars, nodePortable, fsVars, run, pathEnv, fs0, completed>>
    /\ UNCHANGED app

-----------------------------------------------------------------------------
(* ensure_node                                                             *)

\* The detection branch: both executables resolve on the search path.
Detected_Negated(node, npm) == node = None \/ npm = None
Detected(node, npm) == node # None /\ npm # None

\* ensure_node, the probe: both resolve and both answer their version query,
\* and the function returns; otherwise control falls through to the prompt
\* (a failing version query is swallowed by the bare except).
EnsureNode_Detect ==
    /\ pc = "ensure_node" /\ status = "running"
    /\ LET node == which_any("node")
           npm == which_any("npm")
       IN IF Detected(node, npm)
          THEN LET nrc == VersionRc(node)
                   prc == VersionRc(npm)
               IN IF CheckOutputRaises(nrc)
                  THEN /\ trace' = trace \o <<Ev("node --version", nrc)>>
                       /\ Continue("install_prompt")
                  ELSE IF CheckOutputRaises(prc)
                  THEN /\ trace' = trace \o <<Ev("node --version", nrc),
                                               Ev("npm --version", prc)>>
                       /\ Continue("install_prompt")
                  ELSE /\ trace' = trace \o <<Ev("node --version", nrc),
                                               Ev("npm --version", prc),
                                               Say("ok: Node.js / npm")>>
                       /\ Continue("scaffold")
          ELSE /\ trace' = trace
               /\ Continue("install_prompt")
    /\ UNCHANGED <<envVars, nodePortable, fsVars, run, cfgVars, pathEnv, fs0,
                   completed>>
    /\ UNCHANGED app

\* prompt_yes_no's answer decides between sys.exit and the installation.
Declined_Never(answer) == FALSE
Declined(answer) == ~answer

\* ensure_node, the consent prompt.
EnsureNode_Prompt ==
    /\ pc = "install_prompt" /\ status = "running"
    /\ \E answer \in BOOLEAN :
          /\ trace' = trace \o <<Say("warn: Node.js/npm not found and it is needed."),
                                 Say(InstallPrompt), Stdin(answer)>>
          /\ IF Declined(answer)
             THEN /\ Exit("Node.js is required. Abortion.")
                  /\ UNCHANGED pc
             ELSE Continue("fetch_index")
    /\ UNCHANGED <<envVars, nodePortable, fsVars, run, cfgVars, pathEnv, fs0,
                   completed>>
    /\ UNCHANGED app

\* ensure_node, the release index: one urlopen, no exception handling.
EnsureNode_FetchIndex ==
    /\ pc = "fetch_index" /\ status = "running"
    /\ \E rc \in {0, 1} :
          /\ trace' = trace \o <<Ev("urlopen https://nodejs.org/dist/index.json", rc)>>
          /\ IF rc # 0
             THEN /\ Raise("URLError")
                  /\ UNCHANGED pc
             ELSE Continue("install")
    /\ UNCHANGED <<envVars, nodePortable, fsVars, run, cfgVars, pathEnv, fs0,
                   completed>>
    /\ UNCHANGED app

\* ensure_node, elevated: download the MSI, run it silently, prepend the
\* conventional install directory to PATH.
EnsureNode_InstallMsi ==
    /\ pc = "install" /\ status = "running"
    /\ \E frc \in {0, 1}, rc \in {0, 1}, result \in {"absent", "good", "broken"} :
          IF frc # 0
          THEN /\ trace' = trace \o <<Ev("fetch node-x64.msi", frc)>>
               /\ Raise("URLError")
               /\ UNCHANGED <<pc, msiNode, pathEnv>>
          ELSE /\ trace' = trace \o <<Ev("fetch node-x64.msi", frc),
                                      Ev("msiexec.exe /i node-x64.msi /qn", rc)>>
               /\ msiNode' = (IF rc = 0 THEN result ELSE msiNode)
               /\ IF RunRaises(rc)
                  THEN /\ Raise("CalledProcessError")
                       /\ UNCHANGED <<pc, pathEnv>>
                  ELSE /\ pathEnv' = <<ProgramFilesNode>> \o pathEnv
                       /\ Continue("reprobe")
    /\ UNCHANGED <<sysPath, nodePortable, fsVars, run, cfgVars, fs0, completed>>
    /\ UNCHANGED app

\* ensure_node, not elevated: download the ZIP, replace <cwd>/node-portable by
\* the extracted folder, prepend it to PATH.  The rename fails when the
\* archive's top-level folder is not named as expected.
EnsureNode_InstallZip ==
    /\ pc = "install" /\ status = "running"
    /\ \E frc \in {0, 1}, renamed \in BOOLEAN, result \in {"good", "broken"} :
          IF frc # 0
          THEN /\ trace' = trace \o <<Ev("fetch node-win-x64.zip", frc)>>
               /\ Raise("URLError")
               /\ UNCHANGED <<pc, nodePortable, pathEnv>>
          ELSE /\ trace' = trace \o <<Ev("fetch node-win-x64.zip", frc),
                                      Ev("extract node-win-x64.zip",
                                         IF renamed THEN 0 ELSE 1)>>
               /\ IF ~renamed
                  THEN /\ nodePortable' = "absent"
                       /\ Raise("FileNotFoundError")
                       /\ UNCHANGED <<pc, pathEnv>>
                  ELSE /\ nodePortable' = result
                       /\ pathEnv' = <<PortableDir>> \o pathEnv
                       /\ Continue("reprobe")
    /\ UNCHANGED <<envVars, fsVars, run, cfgVars, fs0, completed>>
    /\ UNCHANGED app

\* ensure_node, after the installation: probe again, fatal when unresolved;
\* the version queries are not guarded here.
EnsureNode_Reprobe ==
    /\ pc = "reprobe" /\ status = "running"
    /\ LET node == which_any("node")
           npm == which_any("npm")
       IN IF ~Detected(node, npm)
          THEN /\ trace' = trace
               /\ Exit("Node/npm not available after bootstrap.")
               /\ UNCHANGED pc
          ELSE LET nrc == VersionRc(node)
                   prc == VersionRc(npm)
               IN IF CheckOutputRaises(nrc)
                  THEN /\ trace' = trace \o <<Ev("node --version", nrc)>>
                       /\ Raise("CalledProcessError")
                       /\ UNCHANGED pc
                  ELSE IF CheckOutputRaises(prc)
                  THEN /\ trace' = trace \o <<Ev("node --version", nrc),
                                               Ev("npm --version", prc)>>
                       /\ Raise("CalledProcessError")
                       /\ UNCHANGED pc
                  ELSE /\ trace' = trace \o <<Ev("node --version", nrc),
                                               Ev("npm --version", prc),
                                               Say("ok: Node.js / npm")>>
                       /\ Continue("scaffold")
    /\ UNCHANGED <<envVars, nodePortable, fsVars, run, cfgVars, pathEnv, fs0,
                   completed>>
    /\ UNCHANGED app

-----------------------------------------------------------------------------
(* scaffold                                                                *)

\* What a path names when scaffold and build look at it.
FileAt(p) == IF p = SelfIcon THEN iconIco ELSE ExtFile(p)

\* if icon_src and icon_src.exists() and icon_src.stat().st_size>0
IconValid(icon_src) ==
    /\ icon_src # NoArg
    /\ Exists(FileAt(icon_src))
    /\ StSize(FileAt(icon_src)) > 0

\* shutil.copy2 refuses to copy a file onto itself (SameFileError).
SameFile(src) == src = SelfIcon

\* scaffold, the writes: mkdir, the three generated files, the optional icon.
Scaffold_Write ==
    /\ pc = "scaffold" /\ status = "running"
    /\ appDir' = TRUE
    /\ pkgJson' = PKG_JSON
    /\ mainJs' = MainJs(allow_media)
    /\ preloadJs' = PRELOAD_JS
    /\ LET written == <<Ev("mkdir WhatsApp-Electron", 0),
                        Ev("write package.json", 0),
                        Ev("write main.js", 0),
                        Ev("write preload.js", 0)>>
       IN IF IconValid(icon_arg)
          THEN IF SameFile(icon_arg)
               THEN /\ trace' = trace \o written \o <<Ev("copy2 icon.ico", 1)>>
                    /\ Raise("SameFileError")
                    /\ UNCHANGED <<pc, iconIco>>
               ELSE /\ iconIco' = FileAt(icon_arg)
                    /\ trace' = trace \o written \o <<Ev("copy2 icon.ico", 0),
                                                      Say("ok: Icon copied")>>
                    /\ Continue("selfcheck")
          ELSE /\ trace' = trace \o written \o
                             <<Say("info: No icon provided (skipping --icon).")>>
               /\ Continue("selfcheck")
               /\ UNCHANGED iconIco
    /\ UNCHANGED <<envVars, nodePortable, nodeModules, dist, run, cfgVars,
                   pathEnv, fs0, completed>>
    /\ UNCHANGED app

\* scaffold, the self-check: node loads the manifest; run() with check=True.
Scaffold_SelfCheck ==
    /\ pc = "selfcheck" /\ status = "running"
    /\ \E rc \in (IF pkgJson = PKG_JSON THEN {0, 1} ELSE {1}) :
          /\ trace' = trace \o <<Ev("node -e require('./package.json')", rc)>>
          /\ IF RunRaises(rc)
             THEN /\ Raise("CalledProcessError")
                  /\ UNCHANGED pc
             ELSE Continue("build")
    /\ UNCHANGED <<envVars, nodePortable, fsVars, run, cfgVars, pathEnv, fs0,
                   completed>>
    /\ UNCHANGED app

-----------------------------------------------------------------------------
(* build                                                                   *)

\* build, the dependency install: npm and npx must resolve, then npm install.
Build_Install ==
    /\ pc = "build" /\ status = "running"
    /\ LET npm == which_any("npm")
           npx == which_any("npx")
       IN IF npm = None \/ npx = None
          THEN /\ trace' = trace
               /\ Exit("npm/npx not found.")
               /\ UNCHANGED <<pc, nodeModules>>
          ELSE \E rc \in {0, 1} :
                  /\ trace' = trace \o <<Ev("npm install", rc)>>
                  /\ nodeModules' = (nodeModules \/ rc = 0)
                  /\ IF RunRaises(rc)
                     THEN /\ Raise("CalledProcessError")
                          /\ UNCHANGED pc
                     ELSE Continue("package")
    /\ UNCHANGED <<envVars, nodePortable, appDir, pkgJson, mainJs, preloadJs,
                   iconIco, dist, run, cfgVars, pathEnv, fs0, completed>>
    /\ UNCHANGED app

\* if (APP_DIR/"icon.ico").exists() and (APP_DIR/"icon.ico").stat().st_size>0
IconFlag_SizeInverted == Exists(iconIco) /\ StSize(iconIco) <= 0
IconFlag == Exists(iconIco) /\ StSize(iconIco) > 0

PackagerCmd(flag) ==
    IF flag THEN "npx @electron/packager . --out dist --overwrite --asar --icon=icon.ico"
            ELSE "npx @electron/packager . --out dist --overwrite --asar"

\* if dist.exists(): shutil.rmtree(dist)
RmtreeDist(d) == NoDist

\* What the packager leaves in dist when it writes the expected directory:
\* the scaffold as it is on disk, with the icon only when flagged.
Packaged(flag) ==
    Artifact(OutName, run,
             IF Exists(mainJs) THEN JsAllowMediaLiteral(mainJs) ELSE NoFile,
             IF flag THEN iconIco ELSE NoFile)

\* build, the packaging: icon flag, removal of the prior dist, the packager.
\* The packager may fail, or exit zero with or without the output directory.
Build_Package ==
    /\ pc = "package" /\ status = "running"
    /\ LET cleared == RmtreeDist(dist)
           cmd == PackagerCmd(IconFlag)
           removal == IF dist.exists THEN <<Ev("rmtree dist", 0)>> ELSE <<>>
       IN \E rc \in {0, 1}, outWritten \in BOOLEAN :
             /\ trace' = trace \o removal \o <<Ev(cmd, rc)>>
             /\ dist' = (IF rc = 0 /\ outWritten
                         THEN [exists |-> TRUE,
                               entries |-> {e \in cleared.entries : e.name # OutName}
                                           \cup {Packaged(IconFlag)}]
                         ELSE IF outWritten
                         THEN [exists |-> TRUE, entries |-> cleared.entries]
                         ELSE cleared)
             /\ IF RunRaises(rc)
                THEN /\ Raise("CalledProcessError")
                     /\ UNCHANGED pc
                ELSE Continue("verify")
    /\ UNCHANGED <<envVars, nodePortable, appDir, pkgJson, mainJs, preloadJs,
                   iconIco, nodeModules, run, cfgVars, pathEnv, fs0, completed>>
    /\ UNCHANGED app

\* out = APP_DIR/"dist"/f"{APP_NAME}-win32-x64"; out.exists()
OutExists == dist.exists /\ \E e \in dist.entries : e.name = OutName

\* if not out.exists(): sys.exit("Packaging failed.")
PackagingFailed_Unchecked(out_exists) == FALSE
PackagingFailed(out_exists) == ~out_exists

\* build, the post-condition and the success report.
Build_Verify ==
    /\ pc = "verify" /\ status = "running"
    /\ IF PackagingFailed(OutExists)
       THEN /\ trace' = trace
            /\ Exit("Packaging failed.")
            /\ UNCHANGED pc
       ELSE /\ \E exe_exists \in BOOLEAN :
                  trace' = trace \o <<Say("ok: Built")>> \o
                             (IF exe_exists THEN <<Say("ok: Run")>> ELSE <<>>)
            /\ Continue("open")
    /\ UNCHANGED <<envVars, nodePortable, fsVars, run, cfgVars, pathEnv, fs0,
                   completed>>
    /\ UNCHANGED app

\* try: os.startfile(...) except Exception: warn(...)
StartfileCaught_Uncaught(opened) == FALSE
StartfileCaught(opened) == TRUE

\* build, the file browser: a failure of os.startfile is caught.
Build_Open ==
    /\ pc = "open" /\ status = "running"
    /\ \E opened \in BOOLEAN :
          IF opened
          THEN /\ trace' = trace \o <<Ev("os.startfile", 0)>>
               /\ Continue("finish")
          ELSE IF StartfileCaught(opened)
          THEN /\ trace' = trace \o <<Ev("os.startfile", 1),
                                      Say("warn: Could not open Explorer automatically")>>
               /\ Continue("finish")
          ELSE /\ trace' = trace \o <<Ev("os.startfile", 1)>>
               /\ Raise("OSError")
               /\ UNCHANGED pc
    /\ UNCHANGED <<envVars, nodePortable, fsVars, run, cfgVars, pathEnv, fs0,
                   completed>>
    /\ UNCHANGED app

\* main, after build returned: the last section; the interpreter exits 0.
Main_Done ==
    /\ pc = "finish" /\ status = "running"
    /\ trace' = trace \o <<Say("section: Done. Completed")>>
    /\ status' = "done"
    /\ exitMsg' = ""
    /\ completed' = completed \cup {run}
    /\ UNCHANGED <<envVars, nodePortable, fsVars, run, pc, cfgVars, pathEnv, fs0>>
    /\ UNCHANGED app

\* The script is invoked again in the same working directory: a new process,
\* with the inherited PATH and what the earlier runs left on disk.
Rerun ==
    /\ status # "running"
    /\ run < MaxRuns
    /\ run' = run + 1
    /\ pc' = "main"
    /\ status' = "running"
    /\ exitMsg' = ""
    /\ allow_media' = TRUE
    /\ icon_arg' = NoArg
    /\ pathEnv' = <<>>
    /\ trace' = <<>>
    /\ fs0' = WorkDir
    /\ UNCHANGED <<envVars, nodePortable, fsVars, completed>>
    /\ UNCHANGED app

-----------------------------------------------------------------------------
(* The generated entry script (main.js), run by Electron                   *)

\* Navigation targets as the browser holds them: a parsed URL, serialised
\* in canonical form (the path of a hierarchical URL is never empty).
Schemes == {"https", "http"}
Hosts == {"web.whatsapp.com", "web.whatsapp.com.evil.example",
          "whatsapp.com", "evil.example"}
Ports == {"", "8443"}
Paths == {"/", "/send?phone=1", "/https://web.whatsapp.com/"}
Urls == [scheme : Schemes, host : Hosts, port : Ports, path : Paths]

OriginHref(u) ==
    u.scheme \o "://" \o u.host \o (IF u.port = "" THEN "" ELSE ":" \o u.port)
Href(u) == OriginHref(u) \o u.path

\* String.prototype.startsWith
StartsWith(str, prefix) ==
    /\ Len(str) >= Len(prefix)
    /\ SubSeq(str, 1, Len(prefix)) = prefix

\* Permission kinds Electron passes to the permission request handler.
Permissions == {"media", "notifications", "display-capture", "geolocation",
                "midi", "fullscreen", "clipboard-read"}

\* The body of the handler given to setPermissionRequestHandler: the value
\* passed to cb.
PermissionHandler_NoMediaGate(allowMedia, permission) ==
    permission \in {"media", "notifications", "display-capture"}
PermissionHandler(allowMedia, permission) ==
    IF permission = "media" THEN allowMedia
    ELSE IF permission = "notifications" THEN TRUE
    ELSE IF permission = "display-capture" THEN TRUE
    ELSE FALSE

\* The condition of the will-navigate listener: the navigation is prevented
\* and the URL handed to shell.openExternal.
NavigatesAway_NoSlash(url) == ~StartsWith(url, LOAD_URL)
NavigatesAway(url) == ~StartsWith(url, NAV_PREFIX)

NoUrl == "<none>"

\* createWindow ran: the window loads the fixed URL, the handlers are set.
Launched(am, main_js) ==
    [phase |-> "ready", allow_media |-> am, mainJs |-> main_js,
     window |-> LOAD_URL, event |-> "launch", permission |-> "", granted |-> FALSE,
     target |-> NoUrl, prevented |-> FALSE, external |-> NoUrl,
     windowBefore |-> LOAD_URL]

\* The application as packaged from a scaffold generated with either value
\* of the media flag; the pipeline that produced it has completed.
AppInit ==
    /\ \E am \in BOOLEAN :
          /\ allow_media = am
          /\ mainJs = MainJs(am)
          /\ dist = [exists |-> TRUE,
                     entries |-> {Artifact(OutName, 1, PyLower(PyStr(am)), NoFile)}]
          /\ app = Launched(am, MainJs(am))
    /\ sysPath = [node |-> TRUE, npm |-> TRUE, npx |-> TRUE, answers |-> TRUE]
    /\ msiNode = "absent"
    /\ nodePortable = "absent"
    /\ appDir = TRUE
    /\ pkgJson = PKG_JSON
    /\ preloadJs = PRELOAD_JS
    /\ iconIco = NoFile
    /\ nodeModules = TRUE
    /\ run = 1
    /\ pc = "finish"
    /\ status = "done"
    /\ exitMsg = ""
    /\ icon_arg = NoArg
    /\ pathEnv = <<>>
    /\ trace = <<>>
    /\ fs0 = [appDir |-> FALSE, pkgJson |-> NoFile, mainJs |-> NoFile,
              preloadJs |-> NoFile, iconIco |-> NoFile, nodeModules |-> FALSE,
              dist |-> NoDist, nodePortable |-> "absent"]
    /\ completed = {1}

\* The page asks for a permission: the handler answers through cb.
App_PermissionRequest ==
    /\ app.phase = "ready"
    /\ JsIsBoolLiteral(JsAllowMediaLiteral(app.mainJs))
    /\ \E permission \in Permissions :
          LET allowMedia == JsEvalBool(JsAllowMediaLiteral(app.mainJs))
          IN app' = [app EXCEPT !.event = "permission",
                                !.permission = permission,
                                !.granted = PermissionHandler(allowMedia, permission)]
    /\ UNCHANGED pipeVars

\* The page or the user starts a navigation of the window (will-navigate).
App_WillNavigate ==
    /\ app.phase = "ready"
    /\ \E u \in Urls :
          LET url == Href(u)
          IN IF NavigatesAway(url)
             THEN app' = [app EXCEPT !.event = "will-navigate", !.target = url,
                                     !.windowBefore = app.window,
                                     !.prevented = TRUE, !.external = url]
             ELSE app' = [app EXCEPT !.event = "will-navigate", !.target = url,
                                     !.windowBefore = app.window,
                                     !.prevented = FALSE, !.external = NoUrl,
                                     !.window = url]
    /\ UNCHANGED pipeVars

\* The page opens a new window: always denied and opened externally.
App_WindowOpen ==
    /\ app.phase = "ready"
    /\ \E u \in Urls :
          app' = [app EXCEPT !.event = "window-open", !.target = Href(u),
                             !.windowBefore = app.window,
                             !.prevented = TRUE, !.external = Href(u)]
    /\ UNCHANGED pipeVars

AppNext ==
    \/ App_PermissionRequest
    \/ App_WillNavigate
    \/ App_WindowOpen

AppSpec == AppInit /\ [][AppNext]_vars

Next ==
    \/ Main
    \/ EnsureNode_Detect
    \/ EnsureNode_Prompt
    \/ EnsureNode_FetchIndex
    \/ EnsureNode_InstallMsi
    \/ EnsureNode_InstallZip
    \/ EnsureNode_Reprobe
    \/ Scaffold_Write
    \/ Scaffold_SelfCheck
    \/ Build_Install
    \/ Build_Package
    \/ Build_Verify
    \/ Build_Open
    \/ Main_Done
    \/ Rerun

Spec == Init /\ [][Next]_vars

-----------------------------------------------------------------------------
(* Vocabulary of the properties                                            *)

Idx == 1..Len(trace)
Happened(e) == \E i \in Idx : trace[i] = e
Said(msg) == \E i \in Idx : trace[i].ev = msg

PackagerCmds == {PackagerCmd(TRUE), PackagerCmd(FALSE)}
VersionQueries == {"node --version", "npm --version"}
Subprocesses == VersionQueries \cup PackagerCmds \cup
                {"msiexec.exe /i node-x64.msi /qn",
                 "node -e require('./package.json')", "npm install"}
NetworkFetches == {"urlopen https://nodejs.org/dist/index.json",
                   "fetch node-x64.msi", "fetch node-win-x64.zip"}
Installers == {"msiexec.exe /i node-x64.msi /qn", "extract node-win-x64.zip"}

\* Positions of this run at which scaffold has returned from its writes.
AfterScaffoldWrite == {"selfcheck", "build", "package", "verify", "open", "finish"}

\* The file the icon argument named when this run started.
ArgFile0 == IF icon_arg = SelfIcon THEN fs0.iconIco ELSE ExtFile(icon_arg)
IconGiven == icon_arg # NoArg /\ ArgFile0 # NoFile /\ Len(ArgFile0) > 0

\* The scaffold and output parts of the working directory.
ScaffoldOf(w) == <<w.appDir, w.pkgJson, w.mainJs, w.preloadJs, w.iconIco,
                   w.nodeModules>>

-----------------------------------------------------------------------------
\* C1: with no icon argument, or an icon path that does not exist or names a
\* zero-length file, once scaffold has written the scaffold directory holds
\* no icon file and no packaging command of the run carries --icon.
C1_NoIconNoFlag ==
    (pc \in AfterScaffoldWrite /\ ~IconGiven)
        => /\ iconIco = NoFile
           /\ ~Said(PackagerCmd(TRUE))

-----------------------------------------------------------------------------
\* C7: with an icon argument naming an existing non-empty file, once scaffold
\* has written the scaffold directory holds that file's content as icon.ico,
\* whatever icon was there before, and every packaging command of the run
\* carries --icon=icon.ico.
C7_IconCopiedAndFlagged ==
    (pc \in AfterScaffoldWrite /\ IconGiven)
        => /\ iconIco = ArgFile0
           /\ ~Said(PackagerCmd(FALSE))

C7_Witness ==
    /\ pc = "verify"
    /\ icon_arg = "other.ico"
    /\ fs0.iconIco = "ICON-A"
    /\ iconIco = "ICON-B"
    /\ Happened(Ev(PackagerCmd(TRUE), 0))

-----------------------------------------------------------------------------
LatestIcon == IF IconGiven THEN ArgFile0 ELSE NoFile
TwiceCompleted == status = "done" /\ run \in completed /\ completed # {run}

\* C2: after a second completed run in the same working directory the
\* scaffold holds exactly what the second run's configuration generates
\* (media flag, icon or none), and dist holds only what the second run's
\* packaging wrote from that configuration.
C2_RerunReflectsLatest ==
    TwiceCompleted
        => /\ pkgJson = PKG_JSON
           /\ mainJs = MainJs(allow_media)
           /\ preloadJs = PRELOAD_JS
           /\ iconIco = LatestIcon
           /\ dist.exists
           /\ \A e \in dist.entries :
                 /\ e.builtBy = run
                 /\ e.media = (IF allow_media THEN "true" ELSE "false")
                 /\ e.icon = LatestIcon

-----------------------------------------------------------------------------
ToolchainPresent == sysPath.node /\ sysPath.npm /\ sysPath.answers

\* C3: when node and npm both resolve on the inherited PATH and answer their
\* version queries, ensure_node returns: no install prompt, no network
\* fetch, no installer or extraction, PATH as inherited, and the working
\* directory as found when it returns.
C3_PresentToolchainUntouched ==
    (ToolchainPresent /\ pc \notin {"main", "ensure_node"})
        => /\ pc \in {"scaffold"} \cup AfterScaffoldWrite
           /\ ~Said(InstallPrompt)
           /\ \A i \in Idx : trace[i].ev \notin NetworkFetches \cup Installers
           /\ pathEnv = <<>>
           /\ nodePortable = fs0.nodePortable
           /\ msiNode = "absent"
           /\ ((pc = "scaffold" /\ status = "running") => WorkDir = fs0)

C3_Witness ==
    /\ ToolchainPresent
    /\ pc = "scaffold"
    /\ Happened(Ev("node --version", 0))
    /\ Happened(Ev("npm --version", 0))

-----------------------------------------------------------------------------
PackagerExitedZero == \E c \in PackagerCmds : Happened(Ev(c, 0))

\* C4: when the packager has exited zero and dist/<app-name>-win32-x64 does
\* not exist, the run can only end by sys.exit("Packaging failed."): neither
\* the "Built" report nor the final "Done" section is ever printed.
C4_MissingOutputIsFatal ==
    (PackagerExitedZero /\ ~OutExists)
        => /\ pc = "verify"
           /\ \/ status = "running"
              \/ (status = "fatal" /\ exitMsg = "Packaging failed." /\ ExitCode # 0)
           /\ (status = "running" => ENABLED Build_Verify)
           /\ ~Said("ok: Built")
           /\ ~Said("section: Done. Completed")

C4_Witness ==
    /\ PackagerExitedZero
    /\ ~OutExists
    /\ status = "fatal"
    /\ exitMsg = "Packaging failed."

-----------------------------------------------------------------------------
DeclinedAt(i) == /\ i + 1 \in Idx
                 /\ trace[i].ev = InstallPrompt
                 /\ trace[i + 1] = Stdin(FALSE)

\* C8: when the user declines the install prompt the run is over with a
\* non-zero exit, the refusal is the last thing that happened, and nothing
\* was written: no network fetch, PATH as inherited, the working directory
\* (scaffold, dist, node-portable) exactly as the run found it.
C8_DeclineWritesNothing ==
    \A i \in Idx :
        DeclinedAt(i)
            => /\ status = "fatal"
               /\ ExitCode # 0
               /\ Len(trace) = i + 1
               /\ ~ToolchainPresent
               /\ \A j \in Idx : trace[j].ev \notin NetworkFetches \cup Installers
               /\ pathEnv = <<>>
               /\ WorkDir = fs0

C8_Witness ==
    /\ status = "fatal"
    /\ exitMsg = "Node.js is required. Abortion."
    /\ \E i \in Idx : DeclinedAt(i)
    /\ fs0.appDir

-----------------------------------------------------------------------------
PackagedOk == PackagerExitedZero /\ OutExists

\* C9: once the packager has exited zero and the output directory exists,
\* the run never ends fatally or by an exception: it can always take its
\* next step, a failed os.startfile is followed by a warning, and it ends
\* "done" (exit 0) after the "Built" report and the "Done" section.
C9_OpenFailureIsNotFatal ==
    PackagedOk
        => /\ status \in {"running", "done"}
           /\ pc \in {"verify", "open", "finish"}
           /\ (status = "running" => ENABLED (Build_Verify \/ Build_Open \/ Main_Done))
           /\ (pc \in {"open", "finish"} => Said("ok: Built"))
           /\ (Happened(Ev("os.startfile", 1))
                 => Said("warn: Could not open Explorer automatically"))
           /\ (status = "done"
                 => /\ ExitCode = 0
                    /\ pc = "finish"
                    /\ Said("section: Done. Completed"))

C9_Witness ==
    /\ PackagedOk
    /\ status = "done"
    /\ Happened(Ev("os.startfile", 1))

-----------------------------------------------------------------------------
\* C5: the generated script loads with a boolean allowMedia, and its
\* permission handler grants "media" (camera and microphone) exactly when the
\* media flag given to scaffold was true, always grants "notifications" and
\* "display-capture", and denies every other permission kind.
C5_PermissionPolicy ==
    /\ JsIsBoolLiteral(JsAllowMediaLiteral(app.mainJs))
    /\ app.event = "permission"
          => app.granted = (CASE app.permission = "media" -> app.allow_media
                              [] app.permission \in {"notifications", "display-capture"}
                                   -> TRUE
                              [] OTHER -> FALSE)

C5_Witness ==
    /\ app.event = "permission"
    /\ app.permission = "media"
    /\ ~app.allow_media
    /\ ~app.granted

-----------------------------------------------------------------------------
-----------------------------------------------------------------------------
(* C10: the order of the stages                                            *)

\* Both version queries were answered before position k of the trace.
ToolchainVerifiedBefore(k) ==
    \E i, j \in Idx : /\ i < j /\ j < k
                      /\ trace[i] = Ev("node --version", 0)
                      /\ trace[j] = Ev("npm --version", 0)

\* The scaffold directory was made and its manifest loaded before position k.
SelfCheckedBefore(k) ==
    \E m, i \in Idx : /\ m < i /\ i < k
                      /\ trace[m].ev = "mkdir WhatsApp-Electron"
                      /\ trace[i] = Ev("node -e require('./package.json')", 0)

DepsInstalledBefore(k) ==
    \E i \in Idx : i < k /\ trace[i] = Ev("npm install", 0)

StagesInOrder ==
    /\ \A k \in Idx :
          /\ trace[k].ev = "mkdir WhatsApp-Electron" => ToolchainVerifiedBefore(k)
          /\ trace[k].ev \in {"npm install"} \cup PackagerCmds
                => SelfCheckedBefore(k) /\ appDir
          /\ trace[k].ev \in {"rmtree dist"} \cup PackagerCmds
                => DepsInstalledBefore(k)
    /\ (ScaffoldOf(WorkDir) # ScaffoldOf(fs0)) => Said("mkdir WhatsApp-Electron")
    /\ (dist # fs0.dist) => DepsInstalledBefore(Len(trace) + 1)

\* A version query of ensure_node's first probe: nothing was installed yet.
FirstProbe(k) ==
    /\ trace[k].ev \in VersionQueries
    /\ \A j \in 1..k : trace[j].ev # InstallPrompt

FailedSubprocess(k) == trace[k].ev \in Subprocesses /\ trace[k].rc # 0
EndsRunAt(k) == status \in {"fatal", "crash"} /\ k = Len(trace) /\ ExitCode # 0

\* C10 as stated: the stages run in order, each only after the previous one
\* succeeded, and every subprocess that exits non-zero ends the run at once.
C10_AnyFailedSubprocessEndsRun ==
    /\ StagesInOrder
    /\ \A k \in Idx : FailedSubprocess(k) => EndsRunAt(k)

\* C10: the stages run in order, each only after the previous one succeeded,
\* and every subprocess that exits non-zero ends the run at once, except a
\* version query of ensure_node's first probe, whose failure leads to the
\* install prompt instead.
C10_StagesInOrder ==
    /\ StagesInOrder
    /\ \A k \in Idx : (FailedSubprocess(k) /\ ~FirstProbe(k)) => EndsRunAt(k)
    /\ \A k \in Idx : (FailedSubprocess(k) /\ FirstProbe(k))
                         => \/ pc = "install_prompt"
                            \/ /\ k < Len(trace)
                               /\ trace[k + 1].ev =
                                     "warn: Node.js/npm not found and it is needed."

C10_Witness ==
    /\ status = "done"
    /\ Happened(Ev("node --version", 1))
    /\ Happened(Ev("npm install", 0))
    /\ \E k \in Idx : trace[k].ev \in PackagerCmds /\ DepsInstalledBefore(k)
====
